---------------------------- MODULE Spec2Model ----------------------------
(***************************************************************************)
(* Model of the OKX trading controller: the decision post-processing of    *)
(* getTradingDecision (services/aiService.ts and the earlier Gemini        *)
(* variant), the polling / analysis loop of server.ts with its log and     *)
(* decision history, the technical indicators, the status and config      *)
(* endpoints, and the exchange service (executeOrder, updatePositionTPSL   *)
(* in services/aiService.ts and in services/okxService.ts).                *)
(*                                                                         *)
(* Units.  Prices are integers in 1/1000 USDT, equity in 1/100 USDT,       *)
(* contract counts in 1/100 contract, confidence in percent, risk factors  *)
(* in tenths.  A JavaScript number that may be NaN (the result of          *)
(* parseFloat on a missing or non-numeric field) is the empty tuple NaN or *)
(* the one-element tuple Num(v).  The strings the exchange service        *)
(* receives and sends (sizes, trigger prices) are records: see Numeral.    *)
(***************************************************************************)
EXTENDS Integers, Sequences, FiniteSets, TLC

VARIABLES
    rin,      \* inputs of one call of getTradingDecision (pure-function check)
    rout,     \* the decision that call returned
    rpc,      \* "in" before the call, "done" after it
    series,   \* a series of candle closes given to the indicators
    ind,      \* what the indicators returned for it
    status,   \* the config of the last GET /api/status response, as the client holds it
    oin,      \* inputs of one call of executeOrder or updatePositionTPSL, with the exchange's state
    oout,     \* what that call sent, how it ended and what the exchange holds after it
    config,           \* server.ts: config (isSimulation and the three secrets)
    isRunning,        \* server.ts: isRunning
    marketData,       \* server.ts: marketData (null until the first fetch)
    accountData,      \* server.ts: accountData (null until the first fetch)
    lastAnalysisTime, \* server.ts: lastAnalysisTime
    clock,            \* Date.now(), in ms since the first reading
    polling,          \* runTradingLoop calls awaiting their fetch
    timers,           \* deferred callbacks scheduled by setTimeout(.., 0): their `now`
    cyc,              \* the deferred callbacks: position, locals, dispatched call
    ended,            \* the callback that ended last: response, decision, call
    requests,         \* POST requests served so far
    polled,           \* the runTradingLoop call that returned last: outcome, log entries
    uncaught,         \* an exception escaped a tick or a deferred callback
    decisionHistory,  \* server.ts: decisionHistory, newest first
    exch              \* the positions held on the exchange account

dvars == <<rin, rout, rpc, series, ind, status, oin, oout>>
svars == <<config, isRunning, marketData, accountData, lastAnalysisTime,
           clock, polling, timers, cyc, ended, requests, polled, uncaught,
           decisionHistory, exch>>
vars == <<rin, rout, rpc, series, ind, status, oin, oout, config, isRunning, marketData, accountData,
          lastAnalysisTime, clock, polling, timers, cyc, ended, requests, polled,
          uncaught, decisionHistory, exch>>

-----------------------------------------------------------------------------
(* JavaScript numbers *)

NaN == <<>>
Num(v) == <<v>>
IsNaN(x) == x = <<>>
Val(x) == x[1]

\* String.prototype.toUpperCase on the action strings the model may send.
toUpperCase(s) ==
    CASE s = "buy" -> "BUY"
      [] s = "sell" -> "SELL"
      [] s = "hold" -> "HOLD"
      [] s = "close" -> "CLOSE"
      [] s = "update_tpsl" -> "UPDATE_TPSL"
      [] s = "long" -> "LONG"
      [] OTHER -> s

\* Number.prototype.toFixed(2) of the positive rational n / d, in 1/100:
\* the nearest hundredth (a tie goes up).
toFixed2(n, d) == (2 * n + d) \div (2 * d)

\* Math.floor(x * 100) of the rational n / d (in 1/100).
floor2(n, d) == n \div d

MaxOf(a, b) == IF a > b THEN a ELSE b
MinOf(a, b) == IF a < b THEN a ELSE b

-----------------------------------------------------------------------------
(* constants.ts *)

\* A classifier whose bands include their upper threshold
StageOfInclusive(totalEquity) ==
    IF totalEquity <= 2000 THEN "STAGE_1"
    ELSE IF totalEquity <= 8000 THEN "STAGE_2"
    ELSE "STAGE_3"

\* The stage selected by total equity (1/100 USDT).
StageOf(totalEquity) ==
    IF totalEquity < 2000 THEN "STAGE_1"
    ELSE IF totalEquity < 8000 THEN "STAGE_2"
    ELSE "STAGE_3"

StageLeverage(stage) ==
    CASE stage = "STAGE_1" -> 20
      [] stage = "STAGE_2" -> 10
      [] OTHER -> 5

\* risk_factor in tenths; STAGE_3 defines none, so reading it gives undefined
\* and every product with it is NaN.
StageRiskFactor(stage) ==
    CASE stage = "STAGE_1" -> Num(8)
      [] stage = "STAGE_2" -> Num(5)
      [] OTHER -> NaN

-----------------------------------------------------------------------------
(* Account snapshot *)

NoPosition == [posSide |-> "none", pos |-> 0, slTriggerPx |-> NaN, uplPct |-> 0]

\* accountData.positions.find(p => p.instId === INSTRUMENT_ID): the positions
\* request is filtered by instrument, so it is the first position.
PrimaryPosition(account) ==
    IF account.positions = <<>> THEN NoPosition ELSE account.positions[1]

HasPosition(account) ==
    account.positions # <<>> /\ PrimaryPosition(account).pos > 0

-----------------------------------------------------------------------------
(* services/aiService.ts: getTradingDecision *)

\* The object returned by the catch block for every failure inside the try.
FallbackDecision(why) ==
    [thrown |-> FALSE, action |-> "HOLD", size |-> Num(0), leverage |-> Num(0),
     stop_loss |-> Num(0), profit_target |-> Num(0), confidence |-> Num(0),
     notes |-> {}, error |-> why, contracts |-> NaN]

\* getTradingDecision throws before its try block (no API key).
ThrownDecision ==
    [thrown |-> TRUE, action |-> "NONE", size |-> NaN, leverage |-> NaN,
     stop_loss |-> NaN, profit_target |-> NaN, confidence |-> NaN,
     notes |-> {}, error |-> "apikey", contracts |-> NaN]

\* A Ratchet Guard that rejects nothing.
RatchetRejectsNothing(p, newSL) == FALSE

\* The Ratchet Guard: the proposed stop moves against the holder.
RatchetRejects(p, newSL) ==
    LET currentSL == IF IsNaN(p.slTriggerPx) THEN 0 ELSE Val(p.slTriggerPx)
    IN  /\ ~IsNaN(newSL)
        /\ Val(newSL) > 0
        /\ currentSL > 0
        /\ \/ p.posSide = "long" /\ Val(newSL) < currentSL
           \/ p.posSide = "short" /\ Val(newSL) > currentSL

RatchetNote(p) ==
    IF p.posSide = "long" THEN "ratchet_long" ELSE "ratchet_short"

\* const safeLeverage = isNaN(leverage) ? currentStageParams.leverage : leverage
SafeLeverage(leverage, stage) ==
    IF IsNaN(leverage) THEN StageLeverage(stage) ELSE Val(leverage)

\* parseFloat(confidence) || 50: NaN and 0 are both falsy.
ConfidenceOr50(confidence) ==
    IF IsNaN(confidence) \/ Val(confidence) = 0 THEN 50 ELSE Val(confidence)

\* Target contracts, as the numerator of a fraction over the price (1/100
\* contract): from the model's position_size when it gives one, else
\* availableEquity * riskFactor * confidence/100 * leverage / (0.1 * price).
TargetContracts(position_size, confidence, riskFactor, availableEquity, lev, price) ==
    IF position_size.kind \in {"none", "zero"}
    THEN IF IsNaN(riskFactor) THEN NaN
         ELSE Num(10 * availableEquity * Val(riskFactor) * ConfidenceOr50(confidence) * lev)
    ELSE IF position_size.kind = "text" THEN NaN
    ELSE Num(position_size.v * price)

\* maxContracts = availableEquity * 0.95 * leverage / (0.1 * price), same form.
MaxContracts(availableEquity, lev) == 9500 * availableEquity * lev

\* 3. Cap Size: NaN > x is false, so a NaN target is not capped.
CappedContracts(target, maxContracts) ==
    IF ~IsNaN(target) /\ Val(target) > maxContracts THEN Num(maxContracts) ELSE target

\* decision.size = Math.max(targetContracts, 0.01).toFixed(2)
SizeString(contracts, price) ==
    IF IsNaN(contracts) THEN NaN
    ELSE Num(toFixed2(MaxOf(Val(contracts), price), price))

\* The post-processing of a parsed response (lines 443-520).
PostProcess(td, price, account) ==
    LET p == PrimaryPosition(account)
        hasPosition == HasPosition(account)
        stage == StageOf(account.totalEq)
        action0 == toUpperCase(td.action)
        rejected == action0 = "UPDATE_TPSL" /\ hasPosition /\ RatchetRejects(p, td.stop_loss)
        action1 == IF rejected THEN "HOLD" ELSE action0
        notes1 == IF rejected THEN {RatchetNote(p)} ELSE {}
        safeLeverage == SafeLeverage(td.leverage, stage)
        riskFactor == IF hasPosition THEN Num(3) ELSE StageRiskFactor(stage)
        target == TargetContracts(td.position_size, td.confidence, riskFactor,
                                  account.availEq, safeLeverage, price)
        maxContracts == MaxContracts(account.availEq, safeLeverage)
        capped == CappedContracts(target, maxContracts)
        size == SizeString(capped, price)
        tooSmall == ~IsNaN(size) /\ Val(size) < 1
        base == [thrown |-> FALSE, action |-> action1, size |-> Num(0),
                 leverage |-> Num(safeLeverage), stop_loss |-> td.stop_loss,
                 profit_target |-> td.profit_target, confidence |-> td.confidence,
                 notes |-> notes1, error |-> "", contracts |-> NaN]
    IN  IF action1 \in {"BUY", "SELL"}
        THEN [base EXCEPT
                !.action = IF tooSmall THEN "HOLD" ELSE action1,
                !.size = IF tooSmall THEN Num(0) ELSE size,
                !.contracts = capped,
                !.notes = notes1
                          \cup (IF capped # target THEN {"capped"} ELSE {})
                          \cup (IF tooSmall THEN {"insufficient"} ELSE {})]
        ELSE base

\* The call without its catch block: a failed response is post-processed as
\* it stands.
getTradingDecisionNoCatch(hasKey, resp, price, account) ==
    IF ~hasKey THEN ThrownDecision ELSE PostProcess(resp.td, price, account)

\* The whole call: the key check, the model call and its parse, the
\* post-processing.  resp.kind is "throw" (callDeepSeek throws), "empty",
\* "nonjson" (JSON.parse throws after fence stripping), "noaction" (the JSON
\* has no trading_decision.action, so the read or toUpperCase throws inside
\* the try) or "json".
getTradingDecision(hasKey, resp, price, account) ==
    IF ~hasKey THEN ThrownDecision
    ELSE IF resp.kind # "json" THEN FallbackDecision(resp.kind)
    ELSE PostProcess(resp.td, price, account)

-----------------------------------------------------------------------------
(* The earlier variant of getTradingDecision (Gemini) *)

\* Steps 2-4 of its post-processing.  Margins are in 1/100000 USDT, so
\* MIN_OPEN_VALUE = 100 USDT is 10000000.
PostProcessGemini(td, price, account) ==
    LET stage == StageOf(account.totalEq)
        action0 == toUpperCase(td.action)
        safeLeverage == SafeLeverage(td.leverage, stage)
        confidence == ConfidenceOr50(td.confidence)
        riskFactor == StageRiskFactor(stage)
        targetMargin == IF IsNaN(riskFactor) THEN NaN
                        ELSE Num(account.availEq * Val(riskFactor) * confidence)
        maxSafeMargin == account.availEq * 900
        \* Math.min(NaN, x) is NaN
        finalMargin == IF IsNaN(targetMargin) THEN NaN
                       ELSE Num(MinOf(Val(targetMargin), maxSafeMargin))
        value0 == IF IsNaN(finalMargin) THEN NaN ELSE Num(Val(finalMargin) * safeLeverage)
        boost == /\ ~IsNaN(value0)
                 /\ Val(value0) < 10000000
                 /\ maxSafeMargin * safeLeverage > 10000000
                 /\ confidence >= 40
        positionValue == IF boost THEN Num(10000000) ELSE value0
        belowFloor == ~IsNaN(positionValue) /\ Val(positionValue) < 10000000
        \* numContractsRaw = positionValue / (0.1 * price): in 1/100 contract,
        \* the fraction raw / price
        raw == IF IsNaN(positionValue) THEN NaN ELSE Num(10 * Val(positionValue))
        numContracts == IF IsNaN(raw) THEN NaN ELSE Num(floor2(Val(raw), price))
        belowUnit == ~IsNaN(numContracts) /\ Val(numContracts) < 1
        base == [thrown |-> FALSE, action |-> action0, size |-> Num(0),
                 leverage |-> Num(safeLeverage), stop_loss |-> td.stop_loss,
                 profit_target |-> td.profit_target, confidence |-> td.confidence,
                 notes |-> {}, error |-> "", contracts |-> NaN]
    IN  IF action0 \in {"BUY", "SELL"}
        THEN IF belowFloor
             THEN [base EXCEPT !.action = "HOLD", !.leverage = NaN,
                               !.contracts = raw,
                               !.notes = {"notional_small"}]
             ELSE IF belowUnit
             THEN [base EXCEPT !.action = "HOLD", !.leverage = NaN,
                               !.contracts = raw,
                               !.notes = {"contracts_small"}]
             ELSE [base EXCEPT !.size = numContracts, !.contracts = raw]
        ELSE base

getTradingDecisionGemini(hasKey, resp, price, account) ==
    IF ~hasKey THEN ThrownDecision
    ELSE IF resp.kind # "json" THEN FallbackDecision(resp.kind)
    ELSE PostProcessGemini(resp.td, price, account)

-----------------------------------------------------------------------------
(* The inputs of getTradingDecision, drawn from small sets *)

ModelActions == {"BUY", "sell", "HOLD", "close", "update_tpsl", "UPDATE_TPSL", "LONG"}
ModelConfidences == {NaN, Num(0), Num(10), Num(40), Num(80)}
ModelSizes == {[kind |-> "none", v |-> 0], [kind |-> "zero", v |-> 0],
               [kind |-> "text", v |-> 0], [kind |-> "num", v |-> 5],
               [kind |-> "num", v |-> 50]}
ModelLeverages == {NaN, Num(0), Num(20)}
ModelStops == {NaN, Num(0), Num(2000000), Num(2950000), Num(3000000), Num(3050000)}
Prices == {3000000, 3250500}
\* <<totalEq, availEq>> with availEq <= totalEq
Equities == {<<10, 10>>, <<1500, 1500>>, <<5000, 4000>>, <<10000, 10000>>}
RecordedStops == {NaN, Num(3000000)}
OpenPositions ==
    {[posSide |-> sd, pos |-> 100, slTriggerPx |-> sl, uplPct |-> 0] :
        sd \in {"long", "short", "net"}, sl \in RecordedStops}
PositionLists ==
    {<<>>, <<[posSide |-> "long", pos |-> 0, slTriggerPx |-> NaN, uplPct |-> 0]>>}
    \cup {<<p>> : p \in OpenPositions}

TradingDecisions ==
    [action : ModelActions, confidence : ModelConfidences,
     position_size : ModelSizes, leverage : ModelLeverages,
     stop_loss : ModelStops, profit_target : {NaN}]

NoTradingDecision ==
    [action |-> "", confidence |-> NaN, position_size |-> [kind |-> "none", v |-> 0],
     leverage |-> NaN, stop_loss |-> NaN, profit_target |-> NaN]

\* narrative: the JSON carries stage_analysis (the server reads it for its log).
FailedResponses ==
    {[kind |-> k, td |-> NoTradingDecision, narrative |-> FALSE] :
        k \in {"throw", "empty", "nonjson", "noaction"}}

Responses ==
    FailedResponses
    \cup {[kind |-> "json", td |-> td, narrative |-> TRUE] : td \in TradingDecisions}

Accounts ==
    {[totalEq |-> e[1], availEq |-> e[2], positions |-> ps] :
        e \in Equities, ps \in PositionLists}

NoDecision ==
    [thrown |-> FALSE, action |-> "NONE", size |-> NaN, leverage |-> NaN,
     stop_loss |-> NaN, profit_target |-> NaN, confidence |-> NaN,
     notes |-> {}, error |-> "", contracts |-> NaN]

-----------------------------------------------------------------------------
(* services/okxService.ts, as far as the server's loop observes it *)

\* formatPx: undefined for a missing, non-numeric, zero or negative price,
\* else the price with 2 decimals (prices are in 1/1000).
formatPx(price) ==
    IF IsNaN(price) \/ Val(price) <= 0 THEN NaN
    ELSE Num(((Val(price) + 5) \div 10) * 10)

HasSide(ps, side) == \E i \in DOMAIN ps : ps[i].posSide = side

SetStop(ps, side, sl) ==
    [i \in DOMAIN ps |->
        IF ps[i].posSide = side THEN [ps[i] EXCEPT !.slTriggerPx = sl] ELSE ps[i]]

RemoveSide(ps, side) == SelectSeq(ps, LAMBDA q : q.posSide # side)

AddToSide(ps, side, size, sl) ==
    IF HasSide(ps, side)
    THEN [i \in DOMAIN ps |->
            IF ps[i].posSide = side THEN [ps[i] EXCEPT !.pos = @ + size] ELSE ps[i]]
    ELSE Append(ps, [posSide |-> side, pos |-> size, slTriggerPx |-> sl, uplPct |-> 0])

\* generateMockAccountData: 15.00 USDT, no positions.
MockAccount ==
    [set |-> TRUE, mock |-> TRUE, totalEq |-> 1500, availEq |-> 1500,
     positions |-> <<>>]

\* fetchAccountData on the real account: the balance and the positions, each
\* with the trigger price of its pending stop-loss order.
RealAccount(positions) ==
    [set |-> TRUE, mock |-> FALSE, totalEq |-> 1500, availEq |-> 1500,
     positions |-> positions]

fetchAccountData(cfg, positions) ==
    IF cfg.isSimulation THEN MockAccount ELSE RealAccount(positions)

\* The exchange after updatePositionTPSL ends with `outcome`: "ok", "fail_early"
\* (a request throws before the cancel) or "fail_place" (the old stop orders
\* are cancelled and the new order is refused).
AfterUpdateTPSL(ps, call, outcome) ==
    LET finalSl == formatPx(call.sl)
    IN  IF IsNaN(finalSl) \/ outcome = "fail_early" THEN ps
        ELSE IF outcome = "ok" THEN SetStop(ps, call.posSide, finalSl)
        ELSE SetStop(ps, call.posSide, NaN)

\* The exchange after executeOrder succeeds: CLOSE closes the long position,
\* or else the short one; BUY adds to the long side and every other action to
\* the short side, with the formatted stop attached to a new position.
AfterExecuteOrder(ps, call) ==
    IF call.action = "CLOSE"
    THEN IF HasSide(ps, "long") THEN RemoveSide(ps, "long") ELSE RemoveSide(ps, "short")
    ELSE AddToSide(ps, IF call.action = "BUY" THEN "long" ELSE "short",
                   Val(call.size), formatPx(call.sl))

-----------------------------------------------------------------------------
(* server.ts *)

PollIntervalMs == 5000
AnalysisIntervalMs == 15000

MaxTicks == 3
MaxPolls == 2
MaxCycles == 2
MaxRequests == 3

NoAccount ==
    [set |-> FALSE, mock |-> FALSE, totalEq |-> 0, availEq |-> 0, positions |-> <<>>]
NoMarket == [set |-> FALSE, last |-> 0]
NoResponse == [kind |-> "none", td |-> NoTradingDecision, narrative |-> FALSE]
NoCall == [kind |-> "none", action |-> "NONE", posSide |-> "none", size |-> NaN,
           sl |-> NaN, tp |-> NaN, recorded |-> NaN, open |-> FALSE, real |-> FALSE]
FreeCycle == [pc |-> "free", price |-> 0, snap |-> NoAccount, logs |-> <<>>, stored |-> 0,
              resp |-> NoResponse, decision |-> NoDecision, call |-> NoCall]
NoneEnded == [kind |-> "none", action |-> "NONE", size |-> NaN, leverage |-> NaN,
              error |-> "", call |-> "none", narrative |-> FALSE, result |-> "none",
              logs |-> <<>>, stored |-> 0]
(***************************************************************************)
(* Technical indicators (aiService.ts 7-116, part_000 7-46).  What an      *)
(* indicator returns is a number, undefined, NaN, or, past the guard on    *)
(* the length of the series, the value its arithmetic computes.            *)
(***************************************************************************)

JsNum(v) == [tag |-> "number", v |-> v]
Undefined == [tag |-> "undefined", v |-> 0]
JsNaN == [tag |-> "NaN", v |-> 0]
Computed == [tag |-> "computed", v |-> 0]
NotCalled == [tag |-> "none", v |-> 0]

\* a[i] of a JavaScript array (i counted from 1 here): undefined outside it.
Element(a, i) == IF i \in DOMAIN a THEN JsNum(a[i]) ELSE Undefined

\* a.slice(-n)
LastN(a, n) == IF Len(a) <= n THEN a ELSE SubSeq(a, Len(a) - n + 1, Len(a))

\* a + f * b and a - b of two results.
JsLinear(a, f, b) ==
    IF a.tag \in {"undefined", "NaN"} \/ b.tag \in {"undefined", "NaN"} THEN JsNaN
    ELSE IF a.tag = "number" /\ b.tag = "number" THEN JsNum(a.v + f * b.v)
    ELSE Computed

calcSMA(data, period) == IF Len(data) < period THEN JsNum(0) ELSE Computed

calcStdDev(data, period) == IF Len(data) < period THEN JsNum(0) ELSE Computed

calcRSI(prices, period) == IF Len(prices) < period + 1 THEN JsNum(50) ELSE Computed

calcEMA(prices, period) ==
    IF Len(prices) < period THEN Element(prices, Len(prices)) ELSE Computed

\* aiService.ts: the EMAs of the last 24 and the last 52 prices.
calcMACD(prices) ==
    IF Len(prices) < 26
    THEN [macd |-> JsNum(0), signal |-> JsNum(0), hist |-> JsNum(0)]
    ELSE LET macdLine == JsLinear(calcEMA(LastN(prices, 24), 12), -1,
                                  calcEMA(LastN(prices, 52), 26))
         IN  [macd |-> macdLine, signal |-> JsLinear(macdLine, 0, macdLine),
              hist |-> JsLinear(macdLine, -1, macdLine)]

\* part_000: the EMAs of the last 12 and the last 26 prices.
calcMACDGemini(prices) ==
    IF Len(prices) < 26
    THEN [macd |-> JsNum(0), signal |-> JsNum(0), hist |-> JsNum(0)]
    ELSE LET macdLine == JsLinear(calcEMA(LastN(prices, 12), 12), -1,
                                  calcEMA(LastN(prices, 26), 26))
         IN  [macd |-> macdLine, signal |-> JsLinear(macdLine, 0, macdLine),
              hist |-> JsLinear(macdLine, -1, macdLine)]

calcBollinger(prices, period, multiplier) ==
    LET mid == calcSMA(prices, period)
        std == calcStdDev(prices, period)
    IN  [upper |-> JsLinear(mid, multiplier, std), mid |-> mid,
         lower |-> JsLinear(mid, -multiplier, std)]

\* The loop skips every index below period - 1.
calcKDJ(closes, period) ==
    IF Len(closes) < period
    THEN [k |-> JsNum(50), d |-> JsNum(50), j |-> JsNum(50)]
    ELSE [k |-> Computed, d |-> Computed, j |-> Computed]

NoIndicators ==
    [variant |-> "none", thrown |-> FALSE, sma |-> NotCalled, std |-> NotCalled,
     rsi |-> NotCalled, emaShort |-> NotCalled, emaLong |-> NotCalled,
     macd |-> [macd |-> NotCalled, signal |-> NotCalled, hist |-> NotCalled],
     boll |-> [upper |-> NotCalled, mid |-> NotCalled, lower |-> NotCalled],
     kdj |-> [k |-> NotCalled, d |-> NotCalled, j |-> NotCalled]]

\* The periods the two files give their indicators.
IndicatorPeriods(variant) ==
    IF variant = "gemini"
    THEN [sma |-> 20, rsi |-> 7, emaShort |-> 20, emaLong |-> 50, macd |-> 26, kdj |-> 9]
    ELSE [sma |-> 20, rsi |-> 14, emaShort |-> 12, emaLong |-> 26, macd |-> 26, kdj |-> 9]

\* The seven indicators of aiService.ts applied to one series.
IndicatorsOf(closes) ==
    LET P == IndicatorPeriods("deepseek")
    IN  [variant |-> "deepseek", thrown |-> FALSE,
         sma |-> calcSMA(closes, P.sma), std |-> calcStdDev(closes, P.sma),
         rsi |-> calcRSI(closes, P.rsi),
         emaShort |-> calcEMA(closes, P.emaShort),
         emaLong |-> calcEMA(closes, P.emaLong),
         macd |-> calcMACD(closes),
         boll |-> calcBollinger(closes, P.sma, 2),
         kdj |-> calcKDJ(closes, P.kdj)]

\* part_000 83-86 and the prompt built from them before the try block:
\* ema20.toFixed(2) raises a TypeError on undefined.
IndicatorsOfGemini(closes) ==
    LET P == IndicatorPeriods("gemini")
        ema20 == calcEMA(closes, P.emaShort)
    IN  [NoIndicators EXCEPT
            !.variant = "gemini",
            !.rsi = calcRSI(closes, P.rsi),
            !.emaShort = ema20,
            !.emaLong = calcEMA(closes, P.emaLong),
            !.macd = calcMACDGemini(closes),
            !.thrown = (ema20.tag = "undefined")]

DEFAULT_CONFIG ==
    [isSimulation |-> TRUE, okxSecretKey |-> "", okxPassphrase |-> "",
     deepseekApiKey |-> ""]

NoStatus == [set |-> FALSE, posted |-> FALSE, config |-> DEFAULT_CONFIG]

NonePolled == [outcome |-> "none", running |-> FALSE, logs |-> <<>>]

\* The positions the real account may hold when the server starts.
StartPositions ==
    {<<>>,
     <<[posSide |-> "long", pos |-> 100, slTriggerPx |-> Num(3000000), uplPct |-> 10]>>,
     <<[posSide |-> "long", pos |-> 100, slTriggerPx |-> NaN, uplPct |-> 60]>>,
     <<[posSide |-> "short", pos |-> 100, slTriggerPx |-> Num(3300000), uplPct |-> 10]>>,
     <<[posSide |-> "net", pos |-> 100, slTriggerPx |-> NaN, uplPct |-> 10]>>}

ServerPrices == {3250500}

ServerTD(a, sl) ==
    [action |-> a, confidence |-> Num(80), position_size |-> [kind |-> "none", v |-> 0],
     leverage |-> NaN, stop_loss |-> sl, profit_target |-> NaN]

\* What the model may answer in the loop.
ServerResponses ==
    FailedResponses
    \cup {[kind |-> "json", td |-> ServerTD("HOLD", NaN), narrative |-> n] : n \in BOOLEAN}
    \cup {[kind |-> "json", td |-> ServerTD(a, NaN), narrative |-> TRUE] :
            a \in {"BUY", "CLOSE"}}
    \cup {[kind |-> "json", td |-> ServerTD("UPDATE_TPSL", sl), narrative |-> TRUE] :
            sl \in {NaN, Num(3050000), Num(3100000), Num(3350000)}}

\* const isValid = (p) => p && !isNaN(parseFloat(p)) && parseFloat(p) > 0
isValid(p) == ~IsNaN(p) /\ Val(p) > 0

\* The exchange call the deferred callback dispatches for `decision`, with the
\* primary position of `account` (the accountData of that moment), or NoCall.
\* recorded and open note that position's stop and whether it is open.
Dispatch(decision, account, cfg) ==
    LET p == PrimaryPosition(account)
        has == account.positions # <<>>
        newSL == decision.stop_loss
        newTP == decision.profit_target
        base == [NoCall EXCEPT !.action = decision.action, !.posSide = p.posSide,
                               !.recorded = p.slTriggerPx, !.open = has /\ p.pos > 0,
                               !.real = ~cfg.isSimulation]
    IN  IF decision.action = "UPDATE_TPSL"
        THEN IF has /\ (isValid(newSL) \/ isValid(newTP)) /\ p.posSide # "net"
             THEN [base EXCEPT !.kind = "tpsl",
                               !.size = Num(p.pos),
                               !.sl = IF isValid(newSL) THEN newSL ELSE NaN,
                               !.tp = IF isValid(newTP) THEN newTP ELSE NaN]
             ELSE NoCall
        ELSE IF decision.action # "HOLD"
        THEN [base EXCEPT !.kind = "order", !.size = decision.size, !.sl = newSL,
                          !.tp = newTP]
        ELSE IF has /\ p.uplPct >= 50
        THEN [base EXCEPT !.kind = "margin"]
        ELSE NoCall

\* A runTradingLoop call and its deferred callback without the callback's
\* outer try/catch.
HandlerNoOuterCatch(site) ==
    CASE site = "fetch" -> "sync"
      [] site \in {"nokey", "narrative"} -> "none"
      [] site \in {"tpsl", "order", "margin"} -> site

\* The catch block around each place where a runTradingLoop call or its
\* deferred callback can throw ("none": the exception escapes): the fetches
\* (server.ts 48-54), getTradingDecision without a key and the log line of a
\* decision without stage_analysis (64-65, 145-147), and the exchange calls
\* (101-113, 118-123, 131-141).
Handler(site) ==
    CASE site = "fetch" -> "sync"
      [] site \in {"nokey", "narrative"} -> "callback"
      [] site \in {"tpsl", "order", "margin"} -> site

Escapes(site) == Handler(site) = "none"

\* The entries a catch block adds to the log.
CaughtLog(site) ==
    IF Escapes(site) THEN <<>>
    ELSE IF Handler(site) = "callback" THEN <<"ERROR:exception">>
    ELSE <<"ERROR:" \o Handler(site)>>

\* addLog('INFO', `[..] 决策: ..`) of a decision (server.ts 82).
DecisionLog(decision) ==
    IF decision.error # "" THEN "INFO:AI Error" ELSE "INFO:decision"

\* The entries logged while dispatching: the warning for a net position and
\* the roll-over notice.
DispatchLogs(decision, account, call) ==
    LET p == PrimaryPosition(account)
    IN  IF /\ decision.action = "UPDATE_TPSL"
           /\ account.positions # <<>>
           /\ (isValid(decision.stop_loss) \/ isValid(decision.profit_target))
           /\ p.posSide = "net"
        THEN <<"WARNING:net">>
        ELSE IF call.kind = "margin" THEN <<"SUCCESS:roll">>
        ELSE <<>>

\* The entry logged when an exchange call returns.
ReturnLog(kind) ==
    CASE kind = "tpsl" -> "SUCCESS:tpsl"
      [] kind = "order" -> "TRADE:order"
      [] kind = "margin" -> "TRADE:roll"

HistoryCap == 1000

\* unshift followed by a slice that keeps the oldest 1000 entries.
StoreHistoryKeepsOldest(history, entry) ==
    LET h == <<entry>> \o history
    IN  IF Len(h) > HistoryCap THEN SubSeq(h, 2, Len(h)) ELSE h

\* decisionHistory.unshift(decision), then slice(0, 1000) beyond 1000 entries.
StoreHistory(history, entry) ==
    LET h == <<entry>> \o history
    IN  IF Len(h) > HistoryCap THEN SubSeq(h, 1, HistoryCap) ELSE h

InFlight(c) == c.pc \in {"model", "tpsl", "order", "margin"}
FreeSlots == {i \in 1..MaxCycles : ~InFlight(cyc[i])}

\* What is kept of callback c when it ends.
Ended(c, result) ==
    [kind |-> c.resp.kind, action |-> c.decision.action, size |-> c.decision.size,
     leverage |-> c.decision.leverage, error |-> c.decision.error,
     call |-> c.call.kind, narrative |-> c.resp.narrative, result |-> result,
     logs |-> c.logs, stored |-> c.stored]
FirstFree == CHOOSE i \in FreeSlots : \A j \in FreeSlots : i <= j

\* The server state after construction, the decision history aside.
ServerStart ==
    /\ config = DEFAULT_CONFIG
    /\ isRunning = FALSE
    /\ marketData = NoMarket
    /\ accountData = NoAccount
    /\ lastAnalysisTime = 0
    /\ clock = AnalysisIntervalMs
    /\ polling = 0
    /\ timers = <<>>
    /\ cyc = [i \in 1..MaxCycles |-> FreeCycle]
    /\ ended = NoneEnded
    /\ requests = 0
    /\ polled = NonePolled
    /\ uncaught = FALSE
    /\ exch \in StartPositions

ServerInit == ServerStart /\ decisionHistory = <<>>

\* The part of runTradingLoop after a successful fetch: the isRunning check,
\* the 15 s gate and setTimeout.
GateAndSchedule ==
    LET now == clock
    IN  timers' = IF isRunning /\ ~(now - lastAnalysisTime < AnalysisIntervalMs)
                  THEN Append(timers, now) ELSE timers

\* setInterval fires runTradingLoop in simulation mode: both fetches return
\* mock data without waiting, so the call runs to its end.
TickSimulated ==
    /\ ~uncaught
    /\ clock < AnalysisIntervalMs + MaxTicks * PollIntervalMs
    /\ timers = <<>>
    /\ config.isSimulation
    /\ clock' = clock + PollIntervalMs
    /\ marketData' \in {[set |-> TRUE, last |-> px] : px \in ServerPrices}
    /\ accountData' = fetchAccountData(config, exch)
    /\ timers' = IF isRunning /\ ~(clock' - lastAnalysisTime < AnalysisIntervalMs)
                 THEN Append(timers, clock') ELSE timers
    /\ polled' = [outcome |-> "ok", running |-> isRunning, logs |-> <<>>]
    /\ UNCHANGED <<dvars, config, isRunning, lastAnalysisTime, polling, cyc, ended,
                   requests, uncaught, decisionHistory, exch>>

\* setInterval fires runTradingLoop on the real exchange: the call waits for
\* its fetches.
TickReal ==
    /\ ~uncaught
    /\ clock < AnalysisIntervalMs + MaxTicks * PollIntervalMs
    /\ timers = <<>>
    /\ ~config.isSimulation
    /\ polling < MaxPolls
    /\ clock' = clock + PollIntervalMs
    /\ polling' = polling + 1
    /\ UNCHANGED <<dvars, config, isRunning, marketData, accountData, lastAnalysisTime,
                   timers, cyc, ended, requests, polled, uncaught, decisionHistory,
                   exch>>

\* Both fetches of a waiting runTradingLoop return.
PollFetched ==
    /\ polling > 0
    /\ polling' = polling - 1
    /\ marketData' \in {[set |-> TRUE, last |-> px] : px \in ServerPrices}
    /\ accountData' = fetchAccountData(config, exch)
    /\ GateAndSchedule
    /\ polled' = [outcome |-> "ok", running |-> isRunning, logs |-> <<>>]
    /\ UNCHANGED <<dvars, config, isRunning, lastAnalysisTime, clock, cyc, ended,
                   requests, uncaught, decisionHistory, exch>>

\* A fetch of a waiting runTradingLoop throws: the call logs and returns
\* (marketData is already replaced when it is the account fetch that throws).
PollFailed ==
    /\ polling > 0
    /\ polling' = polling - 1
    /\ \/ UNCHANGED marketData
       \/ marketData' \in {[set |-> TRUE, last |-> px] : px \in ServerPrices}
    /\ polled' = [outcome |-> "failed", running |-> isRunning,
                  logs |-> IF isRunning THEN CaughtLog("fetch") ELSE <<>>]
    /\ uncaught' = (uncaught \/ Escapes("fetch"))
    /\ UNCHANGED <<dvars, config, isRunning, accountData, lastAnalysisTime, clock,
                   timers, cyc, ended, requests, decisionHistory, exch>>

\* The deferred callback starts: it stores lastAnalysisTime and calls
\* getTradingDecision, which throws at once without an API key and else waits
\* for the model.
CallbackStart ==
    /\ timers # <<>>
    /\ FreeSlots # {}
    /\ timers' = Tail(timers)
    /\ lastAnalysisTime' = Head(timers)
    /\ IF config.deepseekApiKey # ""
       THEN /\ cyc' = [cyc EXCEPT ![FirstFree] =
                          [FreeCycle EXCEPT !.pc = "model",
                                            !.price = marketData.last,
                                            !.snap = accountData,
                                            !.logs = <<"INFO:start">>]]
            /\ UNCHANGED <<ended, uncaught>>
       ELSE /\ ended' = [NoneEnded EXCEPT
                            !.kind = "nokey", !.error = "apikey",
                            !.logs = <<"INFO:start">> \o CaughtLog("nokey")]
            /\ uncaught' = (uncaught \/ Escapes("nokey"))
            /\ UNCHANGED cyc
    /\ UNCHANGED <<dvars, config, isRunning, marketData, accountData, clock, polling,
                   requests, polled, decisionHistory, exch>>

\* The model call of callback i ends with resp: the decision is stored and
\* logged, and its exchange call is dispatched with the primary position of
\* the accountData of this moment.  In simulation mode the call returns at
\* once; a response without stage_analysis makes the log line throw, which
\* ends the callback in its catch.
ModelReturn(i, resp) ==
    LET c == cyc[i]
        decision == getTradingDecision(TRUE, resp, c.price, c.snap)
        throws == decision.error = "" /\ ~resp.narrative
        call == IF throws THEN NoCall ELSE Dispatch(decision, accountData, config)
        mock == call.kind # "none" /\ config.isSimulation
        logs == IF throws THEN CaughtLog("narrative")
                ELSE <<DecisionLog(decision)>>
                       \o DispatchLogs(decision, accountData, call)
                       \o (IF mock THEN <<ReturnLog(call.kind)>> ELSE <<>>)
        c1 == [c EXCEPT !.resp = resp, !.decision = decision, !.call = call,
                        !.logs = c.logs \o logs, !.stored = 1]
    IN  /\ c.pc = "model"
        /\ decisionHistory' =
              StoreHistory(decisionHistory,
                           [timestamp |-> clock, action |-> decision.action])
        /\ uncaught' = (uncaught \/ (throws /\ Escapes("narrative")))
        /\ IF call.kind = "none" \/ config.isSimulation
           THEN /\ cyc' = [cyc EXCEPT ![i] = FreeCycle]
                /\ ended' = Ended(c1, IF mock THEN "ok" ELSE "none")
           ELSE /\ cyc' = [cyc EXCEPT ![i] = [c1 EXCEPT !.pc = call.kind]]
                /\ UNCHANGED ended
        /\ UNCHANGED <<dvars, config, isRunning, marketData, accountData, lastAnalysisTime,
                       clock, polling, timers, requests, polled, exch>>

\* The log and the outcome of callback i once its exchange call has returned
\* (ok) or thrown.
CallReturned(c, ok) ==
    Ended([c EXCEPT !.logs = c.logs \o (IF ok THEN <<ReturnLog(c.call.kind)>>
                                        ELSE CaughtLog(c.call.kind))],
          IF ok THEN "ok" ELSE "failed")

\* updatePositionTPSL of callback i returns or throws.
TpslReturn(i, outcome) ==
    /\ cyc[i].pc = "tpsl"
    /\ outcome = "ok" => HasSide(exch, cyc[i].call.posSide)
    /\ exch' = AfterUpdateTPSL(exch, cyc[i].call, outcome)
    /\ cyc' = [cyc EXCEPT ![i] = FreeCycle]
    /\ ended' = CallReturned(cyc[i], outcome = "ok")
    /\ uncaught' = (uncaught \/ (outcome # "ok" /\ Escapes("tpsl")))
    /\ UNCHANGED <<dvars, config, isRunning, marketData, accountData, lastAnalysisTime,
                   clock, polling, timers, requests, polled, decisionHistory>>

\* executeOrder of callback i returns (the exchange accepted a size of at
\* least 0.01, or closed a position) or throws.
OrderReturn(i, ok) ==
    LET call == cyc[i].call
        accepted == IF call.action = "CLOSE"
                    THEN HasSide(exch, "long") \/ HasSide(exch, "short")
                    ELSE ~IsNaN(call.size) /\ Val(call.size) >= 1
    IN  /\ cyc[i].pc = "order"
        /\ ok => accepted
        /\ exch' = IF ok THEN AfterExecuteOrder(exch, call) ELSE exch
        /\ cyc' = [cyc EXCEPT ![i] = FreeCycle]
        /\ ended' = CallReturned(cyc[i], ok)
        /\ uncaught' = (uncaught \/ (~ok /\ Escapes("order")))
        /\ UNCHANGED <<dvars, config, isRunning, marketData, accountData, lastAnalysisTime,
                       clock, polling, timers, requests, polled, decisionHistory>>

\* addMargin of callback i returns or throws.
MarginReturn(i, ok) ==
    /\ cyc[i].pc = "margin"
    /\ cyc' = [cyc EXCEPT ![i] = FreeCycle]
    /\ ended' = CallReturned(cyc[i], ok)
    /\ uncaught' = (uncaught \/ (~ok /\ Escapes("margin")))
    /\ UNCHANGED <<dvars, config, isRunning, marketData, accountData, lastAnalysisTime,
                   clock, polling, timers, requests, polled, decisionHistory, exch>>

\* POST /api/toggle
PostToggle(running) ==
    /\ requests < MaxRequests
    /\ requests' = requests + 1
    /\ isRunning' = running
    /\ UNCHANGED <<dvars, config, marketData, accountData, lastAnalysisTime, clock,
                   polling, timers, cyc, ended, polled, uncaught, decisionHistory, exch>>

\* One secret of POST /api/config sent as the mask.
MergeSecretOverwrite(old, new) == new

\* One secret of POST /api/config: the mask "***" keeps the stored value, any
\* other value replaces it.
MergeSecret(old, new) == IF new = "***" THEN old ELSE new

Secrets == {"okxSecretKey", "okxPassphrase", "deepseekApiKey"}

\* config = { ...config, ...newConfig, <the three secrets> }
MergeConfig(old, body) ==
    [isSimulation |-> body.isSimulation,
     okxSecretKey |-> MergeSecret(old.okxSecretKey, body.okxSecretKey),
     okxPassphrase |-> MergeSecret(old.okxPassphrase, body.okxPassphrase),
     deepseekApiKey |-> MergeSecret(old.deepseekApiKey, body.deepseekApiKey)]

\* POST /api/config
PostConfig(body) ==
    /\ requests < MaxRequests
    /\ requests' = requests + 1
    /\ config' = MergeConfig(config, body)
    /\ UNCHANGED <<dvars, isRunning, marketData, accountData, lastAnalysisTime, clock,
                   polling, timers, cyc, ended, polled, uncaught, decisionHistory, exch>>

\* The bodies posted while the loop runs: the mode, and the model key either
\* masked or replaced.
ServerBodies ==
    {[isSimulation |-> sim, okxSecretKey |-> "***", okxPassphrase |-> "***",
      deepseekApiKey |-> key] : sim \in BOOLEAN, key \in {"***", "sk-1"}}

Next ==
    \/ TickSimulated
    \/ TickReal
    \/ PollFetched
    \/ PollFailed
    \/ CallbackStart
    \/ \E i \in 1..MaxCycles, resp \in ServerResponses : ModelReturn(i, resp)
    \/ \E i \in 1..MaxCycles, outcome \in {"ok", "fail_early", "fail_place"} :
          TpslReturn(i, outcome)
    \/ \E i \in 1..MaxCycles, ok \in BOOLEAN : OrderReturn(i, ok)
    \/ \E i \in 1..MaxCycles, ok \in BOOLEAN : MarginReturn(i, ok)
    \/ \E running \in BOOLEAN : PostToggle(running)
    \/ \E body \in ServerBodies : PostConfig(body)

\* No call of the exchange service is being checked.
NoOkxCall == [op |-> "none"]

NoOkxResult == [variant |-> "none"]

NoExchangeCall ==
    /\ oin = NoOkxCall
    /\ oout = NoOkxResult

\* No indicator has been applied, no status has been fetched.
NoIndicatorCheck ==
    /\ series = <<>>
    /\ ind = NoIndicators
    /\ status = NoStatus

ChecksIdle == NoIndicatorCheck /\ NoExchangeCall

\* No call of getTradingDecision is being checked.
NoCallMade ==
    /\ rpc = "idle"
    /\ rin = [resp |-> NoResponse, price |-> 0, account |-> NoAccount]
    /\ rout = [variant |-> "none", d |-> NoDecision]

DecisionIdle == ChecksIdle /\ NoCallMade

Init == ServerInit /\ DecisionIdle

Spec == Init /\ [][Next]_vars

-----------------------------------------------------------------------------
(* One call of getTradingDecision, the server at rest *)

DecisionInit ==
    /\ ChecksIdle
    /\ rpc = "in"
    /\ rin \in [resp : Responses, price : Prices, account : Accounts]
    /\ rout = [variant |-> "none", d |-> NoDecision]
    /\ ServerInit
    /\ exch = <<>>

Reconcile ==
    /\ rpc = "in"
    /\ rpc' = "done"
    /\ rout' = [variant |-> "deepseek",
                d |-> getTradingDecision(TRUE, rin.resp, rin.price, rin.account)]
    /\ UNCHANGED <<rin, series, ind, status, oin, oout, svars>>

ReconcileGemini ==
    /\ rpc = "in"
    /\ rpc' = "done"
    /\ rout' = [variant |-> "gemini",
                d |-> getTradingDecisionGemini(TRUE, rin.resp, rin.price, rin.account)]
    /\ UNCHANGED <<rin, series, ind, status, oin, oout, svars>>

DecisionNext == Reconcile \/ ReconcileGemini

SpecDecision == DecisionInit /\ [][DecisionNext]_vars

-----------------------------------------------------------------------------
(* Claims about one call of getTradingDecision (SpecDecision) *)

Returned == rpc = "done" /\ rin.resp.kind = "json"
ModelAction == toUpperCase(rin.resp.td.action)
InPosition == PrimaryPosition(rin.account)
InOpen == rin.account.positions # <<>> /\ InPosition.pos > 0
InRecordedStop == IF IsNaN(InPosition.slTriggerPx) THEN 0 ELSE Val(InPosition.slTriggerPx)
InProposedStop == IF IsNaN(rin.resp.td.stop_loss) THEN 0 ELSE Val(rin.resp.td.stop_loss)
MovesAgainstHolder ==
    \/ InPosition.posSide = "long" /\ InProposedStop < InRecordedStop
    \/ InPosition.posSide = "short" /\ InProposedStop > InRecordedStop
FinalIsOrder == rout.d.action \in {"BUY", "SELL"}
HoldZero == rout.d.action = "HOLD" /\ rout.d.size = Num(0)

\* C1: an UPDATE_TPSL whose proposed stop (> 0) moves against the holder of an
\* open position with a recorded stop (> 0) ends as HOLD with a rejection
\* note; every other such UPDATE_TPSL stays UPDATE_TPSL.
C1_RatchetGate ==
    (/\ Returned
     /\ rout.variant = "deepseek"
     /\ ModelAction = "UPDATE_TPSL"
     /\ InOpen
     /\ InRecordedStop > 0
     /\ InProposedStop > 0)
    => IF MovesAgainstHolder
       THEN /\ rout.d.action = "HOLD"
            /\ rout.d.notes \cap {"ratchet_long", "ratchet_short"} # {}
            /\ rout.d.stop_loss = rin.resp.td.stop_loss
       ELSE rout.d.action = "UPDATE_TPSL" /\ rout.d.notes = {}

C1_Witness ==
    /\ Returned
    /\ rout.variant = "deepseek"
    /\ rin.resp.td.action = "update_tpsl"
    /\ InOpen
    /\ InPosition.posSide = "short"
    /\ InRecordedStop = 3000000
    /\ InProposedStop = 3050000
    /\ rout.d.action = "HOLD"

\* C3: a model BUY/SELL ends either with a notional (size * 0.1 * price) of
\* at least 100 USDT or as HOLD with size "0".
C3_MinNotional ==
    (Returned /\ ModelAction \in {"BUY", "SELL"})
    => \/ HoldZero
       \/ ~IsNaN(rout.d.size) /\ Val(rout.d.size) * rin.price >= 100000000

\* C4: size always denotes a non-negative number of 1/100 contracts, and a
\* computed contract count below 0.01 (or NaN) ends as HOLD with size "0".
C4_SizeWellFormed ==
    rpc = "done"
    => /\ ~IsNaN(rout.d.size)
       /\ Val(rout.d.size) >= 0
       /\ (/\ Returned
           /\ ModelAction \in {"BUY", "SELL"}
           /\ (IsNaN(rout.d.contracts) \/ Val(rout.d.contracts) < rin.price))
          => HoldZero

\* The risk factor the variant uses (tenths).
RiskFactorUsed ==
    IF rout.variant = "deepseek" /\ InOpen THEN Num(3)
    ELSE StageRiskFactor(StageOf(rin.account.totalEq))

\* C5: a final BUY/SELL size never exceeds availableEquity * riskFactor *
\* confidence/100 * leverage / (0.1 * price), nor the model's explicit size.
C5_RiskCap ==
    (Returned /\ FinalIsOrder /\ ~IsNaN(RiskFactorUsed) /\ ~IsNaN(rout.d.leverage))
    => /\ ~IsNaN(rout.d.size)
       /\ Val(rout.d.size) * rin.price
            <= 10 * rin.account.availEq * Val(RiskFactorUsed)
                  * ConfidenceOr50(rin.resp.td.confidence) * Val(rout.d.leverage)
       /\ rin.resp.td.position_size.kind = "num"
            => Val(rout.d.size) <= rin.resp.td.position_size.v

\* The safety reserve of the variant, in 1/10000.
ReserveOf(variant) == IF variant = "deepseek" THEN 9500 ELSE 9000

\* C6: the margin of a final BUY/SELL (size * 0.1 * price / leverage) never
\* exceeds availableEquity * the safety reserve.
C6_MarginReserve ==
    (Returned /\ FinalIsOrder /\ ~IsNaN(rout.d.leverage) /\ Val(rout.d.leverage) > 0)
    => /\ ~IsNaN(rout.d.size)
       /\ Val(rout.d.size) * rin.price
            <= ReserveOf(rout.variant) * rin.account.availEq * Val(rout.d.leverage)

\* The largest tolerated loss of margin, in percent.
MaxLossPct == 20

Distance(a, b) == IF a > b THEN a - b ELSE b - a

\* C7: the stop of a final BUY/SELL that opens a fresh entry is no farther
\* from the price than maxLossFraction / leverage.
C7_StopLossClamp ==
    (/\ Returned
     /\ rout.variant = "deepseek"
     /\ FinalIsOrder
     /\ ~InOpen
     /\ ~IsNaN(rout.d.leverage) /\ Val(rout.d.leverage) > 0
     /\ ~IsNaN(rout.d.stop_loss) /\ Val(rout.d.stop_loss) > 0)
    => 100 * Distance(rin.price, Val(rout.d.stop_loss)) * Val(rout.d.leverage)
          <= MaxLossPct * rin.price

\* C9: every returned decision has a numeric leverage > 0, and a model
\* leverage that does not parse is replaced by the stage's leverage.
C9_LeveragePositive ==
    rpc = "done"
    => /\ ~IsNaN(rout.d.leverage)
       /\ Val(rout.d.leverage) > 0
       /\ (Returned /\ IsNaN(rin.resp.td.leverage))
          => rout.d.leverage = Num(StageLeverage(StageOf(rin.account.totalEq)))

-----------------------------------------------------------------------------
(* Claims about the server's loop (Spec) *)

TpslCalls == {i \in 1..MaxCycles : cyc[i].pc = "tpsl"}

\* C2: every stop the server passes to updatePositionTPSL for an open long
\* position is at or above the stop recorded on that position in the
\* accountData of the moment of the call (at or below for a short position),
\* whenever that recorded stop is set and positive.
C2_StopNeverLoosened ==
    \A i \in TpslCalls :
        LET call == cyc[i].call
        IN  (call.open /\ isValid(call.recorded) /\ ~IsNaN(call.sl))
            => /\ call.posSide = "long" => Val(call.sl) >= Val(call.recorded)
               /\ call.posSide = "short" => Val(call.sl) <= Val(call.recorded)

ModelFailures == {"throw", "empty", "nonjson", "noaction"}

\* C8: a cycle whose model call throws, returns empty text, text that is not
\* JSON or JSON without an action gets HOLD, size "0", leverage "0" and an
\* error narrative, and calls neither executeOrder nor updatePositionTPSL.
C8_FailureHolds ==
    /\ ended.kind \in ModelFailures
         => /\ ended.action = "HOLD"
            /\ ended.size = Num(0)
            /\ ended.leverage = Num(0)
            /\ ended.error # ""
            /\ ended.call \notin {"order", "tpsl"}
    /\ \A i \in 1..MaxCycles :
         (cyc[i].pc # "free" /\ cyc[i].resp.kind \in ModelFailures)
         => /\ cyc[i].decision = FallbackDecision(cyc[i].resp.kind)
            /\ cyc[i].pc = "margin"

C8_Witness ==
    /\ ~config.isSimulation
    /\ ended.kind = "nonjson"
    /\ ended.action = "HOLD"
    /\ ended.call = "margin"

\* C10: at most one analysis cycle is in flight at any time.
C10_OneCycleInFlight ==
    Cardinality({i \in 1..MaxCycles : InFlight(cyc[i])}) <= 1

\* A step in which a deferred callback starts an analysis cycle.
CycleStarts == timers # <<>> /\ timers' = Tail(timers)

\* A step in which a callback dispatches executeOrder, updatePositionTPSL or
\* addMargin (in simulation mode the call returns within the step).
CallDispatched ==
    \E i \in 1..MaxCycles :
        /\ cyc[i].pc = "model"
        /\ \/ cyc'[i].pc \in {"tpsl", "order", "margin"}
           \/ cyc'[i].pc = "free" /\ ended'.call # "none"

\* C11: while running stays false no analysis cycle starts and no exchange
\* call is dispatched (calls dispatched earlier may still return).
C11_PausedStartsNothing ==
    [][(~isRunning /\ ~isRunning') => ~(CycleStarts \/ CallDispatched)]_vars

-----------------------------------------------------------------------------
(* More claims about one call of getTradingDecision (SpecDecision) *)

\* type AIDecision.action
FinalActions == {"BUY", "SELL", "HOLD", "CLOSE", "UPDATE_TPSL"}

\* C12: every returned action is one of BUY, SELL, HOLD, CLOSE, UPDATE_TPSL,
\* and the server dispatches executeOrder only for BUY, SELL or CLOSE.
C12_ClosedActionSet ==
    rpc = "done"
    => /\ rout.d.action \in FinalActions
       /\ Dispatch(rout.d, rin.account, config).kind = "order"
            => rout.d.action \in {"BUY", "SELL", "CLOSE"}


(***************************************************************************)
(* Failures, the log and the decision history (Spec)                       *)
(***************************************************************************)

Logged(logs, entry) == \E k \in DOMAIN logs : logs[k] = entry

\* What the log holds for each failure of a deferred callback that has ended:
\* a missing key and a decision without stage_analysis reach the outer catch,
\* a failed model call is logged with the decision it degrades to, a failed
\* exchange call by the catch around it.
CallbackFailuresLogged ==
    /\ ended.kind = "nokey" => Logged(ended.logs, "ERROR:exception")
    /\ (ended.kind \notin {"none", "nokey"} /\ ended.error = "" /\ ~ended.narrative)
          => Logged(ended.logs, "ERROR:exception")
    /\ ended.error \notin {"", "apikey"} => Logged(ended.logs, "INFO:AI Error")
    /\ ended.result = "failed" => Logged(ended.logs, "ERROR:" \o ended.call)

AnalysisSucceeded == ended.kind # "nokey" /\ ended.error = "" /\ ended.narrative

\* C14: a cycle that has ended has appended exactly one entry to the log, and
\* one entry to the decision history if its analysis succeeded, none if it
\* failed.
C14_OneLogOneHistoryEntry ==
    ended.kind # "none"
    => /\ Len(ended.logs) = 1
       /\ ended.stored = (IF AnalysisSucceeded THEN 1 ELSE 0)


(***************************************************************************)
(* The decision history on its own: decisions are stored into histories    *)
(* that are empty, one short of the cap, or at the cap.                    *)
(***************************************************************************)

MaxStores == 3

HistoryActions == {"BUY", "SELL", "HOLD", "CLOSE", "UPDATE_TPSL"}

\* A history of n earlier decisions, newest first.
OldHistory(n) == [k \in 1..n |-> [timestamp |-> n - k, action |-> "HOLD"]]

HistoryInit ==
    /\ DecisionIdle
    /\ ServerStart
    /\ exch = <<>>
    /\ decisionHistory \in
          {OldHistory(n) : n \in {0, HistoryCap - 1, HistoryCap}}

\* A decision is stamped with the time and stored (server.ts 75-79); time
\* passes between two decisions.
HistoryStore(action) ==
    /\ clock < AnalysisIntervalMs + MaxStores * PollIntervalMs
    /\ clock' = clock + PollIntervalMs
    /\ decisionHistory' =
          StoreHistory(decisionHistory, [timestamp |-> clock, action |-> action])
    /\ UNCHANGED <<dvars, config, isRunning, marketData, accountData, lastAnalysisTime,
                   polling, timers, cyc, ended, requests, polled, uncaught, exch>>

HistoryNext == \E action \in HistoryActions : HistoryStore(action)

SpecHistory == HistoryInit /\ [][HistoryNext]_vars

NewestFirst(history) ==
    \A k \in 1..(Len(history) - 1) :
        history[k].timestamp >= history[k + 1].timestamp

\* C15: the decision history never holds more than 1000 entries and is
\* ordered newest first; storing a decision puts it at the head, moves every
\* earlier entry down by one place unchanged, and drops the oldest entry when
\* the history is full.
C15_BoundedHistory ==
    /\ [](Len(decisionHistory) <= HistoryCap /\ NewestFirst(decisionHistory))
    /\ [][HistoryNext
            => /\ Len(decisionHistory') =
                    (IF Len(decisionHistory) < HistoryCap
                     THEN Len(decisionHistory) + 1 ELSE HistoryCap)
               /\ decisionHistory'[1].timestamp = clock
               /\ \A k \in 2..Len(decisionHistory') :
                     decisionHistory'[k] = decisionHistory[k - 1]]_vars

\* A full history whose oldest entry was dropped by a store.
C15_Witness ==
    /\ Len(decisionHistory) = HistoryCap
    /\ decisionHistory[1].timestamp >= AnalysisIntervalMs
    /\ decisionHistory[HistoryCap].timestamp # 0


(***************************************************************************)
(* The indicators on their own: series of every length up to MaxSeriesLen, *)
(* flat, rising and falling.                                               *)
(***************************************************************************)

MaxSeriesLen == 51

Ramp(n, base, step) == [k \in 1..n |-> base + k * step]

IndicatorInit ==
    /\ NoCallMade
    /\ NoExchangeCall
    /\ ServerInit
    /\ exch = <<>>
    /\ status = NoStatus
    /\ ind = NoIndicators
    /\ series \in {Ramp(n, 3000000, step) :
                      n \in 0..MaxSeriesLen, step \in {-500, 0, 500}}

\* The indicators of aiService.ts are applied to the series.
ApplyIndicators ==
    /\ ind.variant = "none"
    /\ ind' = IndicatorsOf(series)
    /\ UNCHANGED <<rin, rout, rpc, series, status, oin, oout, svars>>

\* getTradingDecision of part_000 computes its indicators and builds its
\* prompt.
ApplyIndicatorsGemini ==
    /\ ind.variant = "none"
    /\ ind' = IndicatorsOfGemini(series)
    /\ UNCHANGED <<rin, rout, rpc, series, status, oin, oout, svars>>

IndicatorNext == ApplyIndicators \/ ApplyIndicatorsGemini

SpecIndicators == IndicatorInit /\ [][IndicatorNext]_vars

IndicatorValues ==
    {ind.sma, ind.std, ind.rsi, ind.emaShort, ind.emaLong,
     ind.macd.macd, ind.macd.signal, ind.macd.hist,
     ind.boll.upper, ind.boll.mid, ind.boll.lower,
     ind.kdj.k, ind.kdj.d, ind.kdj.j}

\* C16: applied to a series shorter than its period, the empty series
\* included, every indicator returns its sentinel (SMA and standard deviation
\* 0, RSI 50, EMA the last price, MACD all zero, KDJ 50/50/50); no indicator
\* returns NaN or undefined, and the caller raises no exception.
C16_ShortSeriesSentinels ==
    ind.variant # "none"
    => LET n == Len(series)
           P == IndicatorPeriods(ind.variant)
           called(r) == r.tag # "none"
       IN  /\ ~ind.thrown
           /\ \A r \in IndicatorValues : r.tag \notin {"undefined", "NaN"}
           /\ (called(ind.sma) /\ n < P.sma)
                 => ind.sma = JsNum(0) /\ ind.std = JsNum(0)
           /\ n < P.rsi => ind.rsi = JsNum(50)
           /\ (0 < n /\ n < P.emaShort) => ind.emaShort = JsNum(series[n])
           /\ (0 < n /\ n < P.emaLong) => ind.emaLong = JsNum(series[n])
           /\ n < P.macd
                 => ind.macd = [macd |-> JsNum(0), signal |-> JsNum(0),
                                hist |-> JsNum(0)]
           /\ (called(ind.kdj.k) /\ n < P.kdj)
                 => ind.kdj = [k |-> JsNum(50), d |-> JsNum(50), j |-> JsNum(50)]


(***************************************************************************)
(* The configuration endpoints on their own: a client posts configurations,*)
(* reads the status and posts the configuration it read back.              *)
(***************************************************************************)

SecretInputs == {"***", "s1", "s2"}

ConfigBodies ==
    [isSimulation : BOOLEAN, okxSecretKey : SecretInputs,
     okxPassphrase : SecretInputs, deepseekApiKey : SecretInputs]

\* { ...config, okxSecretKey: '***', okxPassphrase: '***', deepseekApiKey: '***' }
StatusConfig(cfg) ==
    [cfg EXCEPT !.okxSecretKey = "***", !.okxPassphrase = "***",
                !.deepseekApiKey = "***"]

ConfigInit ==
    /\ DecisionIdle
    /\ ServerInit
    /\ exch = <<>>

\* GET /api/status
GetStatus ==
    /\ status' = [set |-> TRUE, posted |-> FALSE, config |-> StatusConfig(config)]
    /\ UNCHANGED <<rin, rout, rpc, series, ind, oin, oout, svars>>

\* POST /api/config with the configuration of the last status response.
PostBackStatus ==
    /\ status.set
    /\ requests < MaxRequests
    /\ requests' = requests + 1
    /\ config' = MergeConfig(config, status.config)
    /\ status' = [status EXCEPT !.posted = TRUE]
    /\ UNCHANGED <<rin, rout, rpc, series, ind, oin, oout, isRunning, marketData, accountData,
                   lastAnalysisTime, clock, polling, timers, cyc, ended, polled,
                   uncaught, decisionHistory, exch>>

ConfigNext ==
    \/ \E body \in ConfigBodies : PostConfig(body)
    \/ GetStatus
    \/ PostBackStatus

SpecConfig == ConfigInit /\ [][ConfigNext]_vars

\* C17: a secret posted as "***" keeps its stored value, for each of the three
\* secrets; a status response holds "***" in place of every secret and never
\* the stored value; posting the configuration of a status response back
\* changes no stored secret.
C17_MaskKeepsSecrets ==
    /\ [](\A f \in Secrets : config[f] # "***")
    /\ [](status.set => \A f \in Secrets : status.config[f] = "***")
    /\ [][\A body \in ConfigBodies :
             PostConfig(body)
             => \A f \in Secrets : body[f] = "***" => config'[f] = config[f]]_vars
    /\ [][PostBackStatus => \A f \in Secrets : config'[f] = config[f]]_vars

\* The first request stored three secrets and left simulation mode, the status
\* was read and the second request posted it back.
C17_Witness ==
    /\ status.posted
    /\ requests = 2
    /\ ~status.config.isSimulation
    /\ \A f \in Secrets : config[f] = "s1"


(***************************************************************************)
(* More claims about the server loop (Spec)                                *)
(***************************************************************************)

\* C18: the position (side, size, recorded stop) of a dispatched
\* updatePositionTPSL or addMargin call is the primary position of the account
\* snapshot that the callback passed to getTradingDecision.
C18_PositionFromSnapshot ==
    \A i \in 1..MaxCycles :
        cyc[i].pc \in {"tpsl", "margin"}
        => LET p == PrimaryPosition(cyc[i].snap)
               call == cyc[i].call
           IN  /\ cyc[i].snap.positions # <<>>
               /\ call.posSide = p.posSide
               /\ call.recorded = p.slTriggerPx
               /\ cyc[i].pc = "tpsl" => call.size = Num(p.pos)


\* The position on this side has a pending stop-loss order on the exchange.
StopPending(ps, side) ==
    \E k \in DOMAIN ps : ps[k].posSide = side /\ isValid(ps[k].slTriggerPx)

\* C19: when updatePositionTPSL, called with a new stop-loss for a position
\* that has a pending stop-loss order, returns or throws, the position still
\* has a pending stop-loss order.
C19_StopSurvivesUpdate ==
    [][\A i \in 1..MaxCycles :
          ( /\ cyc[i].pc = "tpsl"
            /\ cyc'[i].pc = "free"
            /\ ~IsNaN(formatPx(cyc[i].call.sl))
            /\ StopPending(exch, cyc[i].call.posSide) )
          => StopPending(exch', cyc[i].call.posSide)]_vars


(***************************************************************************)
(* The minimum notional of an opening order (SpecDecision)                 *)
(***************************************************************************)

\* 100 USDT in the unit of margin * leverage (1/100 USDT * tenths * percent).
MinOpenValue == 10000000

\* The notional the sizing rule computes for the call's inputs before any
\* floor: min(availableEquity * riskFactor * confidence, availableEquity *
\* 0.9) * leverage.
ComputedNotional ==
    LET stage == StageOf(rin.account.totalEq)
        riskFactor == StageRiskFactor(stage)
        margin == MinOf(rin.account.availEq * Val(riskFactor)
                          * ConfidenceOr50(rin.resp.td.confidence),
                        rin.account.availEq * 900)
    IN  margin * SafeLeverage(rin.resp.td.leverage, stage)

\* C20: a model BUY/SELL whose computed notional is below 100 USDT is raised
\* to a notional of exactly 100 USDT and proceeds when the confidence is at
\* least 40 and availableEquity * 0.9 * leverage exceeds 100 USDT; otherwise
\* it ends as HOLD with size "0" and a note.
C20_NotionalFloor ==
    LET stage == StageOf(rin.account.totalEq)
        lev == SafeLeverage(rin.resp.td.leverage, stage)
    IN  ( /\ Returned
          /\ ModelAction \in {"BUY", "SELL"}
          /\ ~IsNaN(StageRiskFactor(stage))
          /\ ComputedNotional < MinOpenValue )
        => IF /\ ConfidenceOr50(rin.resp.td.confidence) >= 40
              /\ rin.account.availEq * 900 * lev > MinOpenValue
           THEN /\ rout.d.action = ModelAction
                /\ rout.d.contracts = Num(10 * MinOpenValue)
                /\ ~IsNaN(rout.d.size) /\ Val(rout.d.size) >= 1
           ELSE HoldZero /\ rout.d.notes # {}


(***************************************************************************)
(* Stages, confidence and sizing (SpecDecision)                            *)
(***************************************************************************)

\* The model asks for a fresh entry and leaves the size to the sizing rule.
FreshEntryUnsized ==
    /\ Returned
    /\ ModelAction \in {"BUY", "SELL"}
    /\ ~HasPosition(rin.account)
    /\ rin.resp.td.position_size.kind \in {"none", "zero"}

\* C21: the stage of every total equity has a numeric risk factor in (0, 1],
\* and a fresh-entry BUY/SELL without a model-supplied size ends with a
\* numeric target and a numeric size, never NaN.
C21_NumericSizing ==
    FreshEntryUnsized
    => LET riskFactor == StageRiskFactor(StageOf(rin.account.totalEq))
       IN  /\ ~IsNaN(riskFactor)
           /\ 0 < Val(riskFactor) /\ Val(riskFactor) <= 10
           /\ ~IsNaN(rout.d.contracts)
           /\ ~IsNaN(rout.d.size)


\* C22: a confidence that parses as a number is used as given: a fresh-entry
\* BUY/SELL without a model-supplied size and with confidence 0 has a target
\* margin, and so a target size, of 0.
C22_ZeroConfidenceZeroMargin ==
    ( /\ FreshEntryUnsized
      /\ rin.resp.td.confidence = Num(0)
      /\ ~IsNaN(StageRiskFactor(StageOf(rin.account.totalEq))) )
    => rout.d.contracts = Num(0)


(***************************************************************************)
(* The analysis gate, simulation mode and HOLD cycles (Spec)               *)
(***************************************************************************)

\* C23: an analysis cycle begins at least 15 s after the cycle before it, by
\* the clock values read in runTradingLoop.
C23_CyclesApart ==
    [][CycleStarts
         => lastAnalysisTime' - lastAnalysisTime >= AnalysisIntervalMs]_vars


\* C24: an exchange call that goes to the real exchange belongs to a cycle
\* whose account snapshot was fetched from the real exchange, not generated
\* in simulation mode.
C24_SimulatedNeverReal ==
    \A i \in 1..MaxCycles :
        cyc[i].pc \in {"tpsl", "order", "margin"} => ~cyc[i].snap.mock


\* C25: a cycle whose final decision is HOLD has no request in flight to the
\* real exchange.
C25_HoldSendsNothing ==
    \A i \in 1..MaxCycles :
        cyc[i].pc \in {"tpsl", "order", "margin"} => cyc[i].decision.action # "HOLD"

-----------------------------------------------------------------------------
(* The exchange service: executeOrder and updatePositionTPSL, one call each *)

\* A JavaScript string holding a price or a size, or undefined: for a number,
\* v is its value in thousandths and dp the decimals it is written with.
Undef == [kind |-> "undefined", v |-> 0, dp |-> 0]

Text(kind) == [kind |-> kind, v |-> 0, dp |-> 0]

Numeral(v, dp) == [kind |-> "num", v |-> v, dp |-> dp]

parseFloat(s) == IF s.kind = "num" THEN Num(s.v) ELSE NaN

\* n.toFixed(2) as a string; "NaN" for NaN
toFixedText(n) ==
    IF IsNaN(n) THEN Text("text")
    ELSE Numeral((IF Val(n) >= 0 THEN (Val(n) + 5) \div 10 ELSE -((5 - Val(n)) \div 10)) * 10, 2)

\* formatPx on a string: undefined for a missing, empty, non-numeric or
\* non-positive price, otherwise the price rounded to two decimals.
formatPxText(price) ==
    LET p == formatPx(parseFloat(price))
    IN  IF IsNaN(p) THEN Undef ELSE Numeral(Val(p), 2)

\* okxService.ts, executeOrder: cleanPrice returns the string it was given
cleanPrice(p) ==
    IF p.kind \in {"undefined", "empty"} THEN Undef
    ELSE IF IsNaN(parseFloat(p)) \/ Val(parseFloat(p)) <= 0 THEN Undef
    ELSE p

Truthy(s) == s.kind \notin {"undefined", "empty"}

\* One request to the exchange; fields a request does not carry are Undef.
Request(path, posSide, sz, sl, tp) ==
    [path |-> path, posSide |-> posSide, sz |-> sz, slTriggerPx |-> sl, tpTriggerPx |-> tp]

PosSideOf(action) == IF action = "BUY" THEN "long" ELSE "short"

\* ensureLongShortMode: the account is switched when it is not in long/short
\* mode; executeOrder swallows its failure.
ensureLongShortMode(posMode) ==
    IF posMode = "long_short_mode" THEN <<>>
    ELSE <<Request("set-position-mode", "", Undef, Undef, Undef)>>

OrderResult(sent, thrown, open) ==
    [requests |-> sent, thrown |-> thrown, open |-> open]

\* The price cleaning of the variant: formatPx in aiService.ts, cleanPrice in
\* okxService.ts.
CleanOf(variant, p) == IF variant = "aiService" THEN formatPxText(p) ELSE cleanPrice(p)

\* executeOrder outside simulation. The exchange closes a side that is open
\* and opens a side when it accepts the order.
executeOrderOf(variant, order, ex) ==
    LET mode == ensureLongShortMode(ex.posMode)
        closeLong == Request("close-position", "long", Undef, Undef, Undef)
        closeShort == Request("close-position", "short", Undef, Undef, Undef)
        posSide == PosSideOf(order.action)
        lever == Request("set-leverage", posSide, Undef, Undef, Undef)
        sizeFloat == parseFloat(order.size)
        sizeStr == toFixedText(sizeFloat)
        market == Request("order", posSide, sizeStr, CleanOf(variant, order.sl),
                         CleanOf(variant, order.tp))
        accepted == ex.orderOk /\ sizeStr.kind = "num"
    IN  IF order.action = "CLOSE"
        THEN IF "long" \in ex.open
             THEN OrderResult(mode \o <<closeLong>>, FALSE, ex.open \ {"long"})
             ELSE IF "short" \in ex.open
             THEN OrderResult(mode \o <<closeLong, closeShort>>, FALSE, ex.open \ {"short"})
             ELSE OrderResult(mode \o <<closeLong, closeShort>>, TRUE, ex.open)
        ELSE IF ~ex.leverageOk
        THEN OrderResult(mode \o <<lever>>, TRUE, ex.open)
        ELSE IF ~IsNaN(sizeFloat) /\ Val(sizeFloat) < 10
        THEN OrderResult(mode \o <<lever>>, TRUE, ex.open)
        ELSE OrderResult(mode \o <<lever, market>>, ~accepted,
                         IF accepted THEN ex.open \cup {posSide} ELSE ex.open)

executeOrder(order, ex) == executeOrderOf("aiService", order, ex)

executeOrderOkx(order, ex) == executeOrderOf("okxService", order, ex)

\* A pending conditional order on the exchange
AlgoOrder(algoId, posSide, sl, tp) ==
    [algoId |-> algoId, posSide |-> posSide, slTriggerPx |-> sl, tpTriggerPx |-> tp]

isSL(o) ==
    /\ Truthy(o.slTriggerPx)
    /\ ~IsNaN(parseFloat(o.slTriggerPx))
    /\ Val(parseFloat(o.slTriggerPx)) > 0

isTP(o) ==
    /\ Truthy(o.tpTriggerPx)
    /\ ~IsNaN(parseFloat(o.tpTriggerPx))
    /\ Val(parseFloat(o.tpTriggerPx)) > 0

\* fetchAlgoOrders: the pending orders, or [] when the lookup fails
fetchAlgoOrders(ex) == IF ex.lookupOk THEN ex.pending ELSE {}

NewAlgoId(pending) ==
    IF pending = {} THEN 1
    ELSE 1 + CHOOSE n \in {o.algoId : o \in pending} : \A o \in pending : o.algoId <= n

TpslResult(sent, thrown, pending) ==
    [requests |-> sent, thrown |-> thrown, pending |-> pending]

\* The tail shared by both variants: the cancel request (its response is not
\* read), then the stop-loss order, then the take-profit order; a rejected
\* order throws. The exchange drops the cancelled orders when it accepts the
\* cancel request and holds each conditional order it accepts.
ReplaceOrders(call, ex, toCancel, finalSl, finalTp) ==
    LET cancel == IF toCancel = {} THEN <<>>
                  ELSE <<Request("cancel-algos", call.posSide, Undef, Undef, Undef)>>
        kept == IF ex.cancelOk THEN ex.pending \ toCancel ELSE ex.pending
        slReq == Request("order-algo", call.posSide, call.size, finalSl, Undef)
        tpReq == Request("order-algo", call.posSide, call.size, Undef, finalTp)
        id == NewAlgoId(ex.pending)
        slSent == IF finalSl # Undef THEN <<slReq>> ELSE <<>>
        afterSl == IF finalSl # Undef /\ ex.slOk
                   THEN kept \cup {AlgoOrder(id, call.posSide, finalSl, Undef)}
                   ELSE kept
    IN  IF finalSl = Undef /\ finalTp = Undef
        THEN TpslResult(cancel, FALSE, kept)
        ELSE IF finalSl # Undef /\ ~ex.slOk
        THEN TpslResult(cancel \o slSent, TRUE, afterSl)
        ELSE IF finalTp = Undef
        THEN TpslResult(cancel \o slSent, FALSE, afterSl)
        ELSE IF ~ex.tpOk
        THEN TpslResult(cancel \o slSent \o <<tpReq>>, TRUE, afterSl)
        ELSE TpslResult(cancel \o slSent \o <<tpReq>>, FALSE,
                        afterSl \cup {AlgoOrder(id + 1, call.posSide, Undef, finalTp)})

\* aiService.ts: prices through formatPx; only the orders being replaced are
\* cancelled.
updatePositionTPSL(call, ex) ==
    LET pendingAlgos == fetchAlgoOrders(ex)
        finalSl == formatPxText(call.sl)
        finalTp == formatPxText(call.tp)
        ordersToCancel ==
            {o \in pendingAlgos :
                /\ o.posSide = call.posSide
                /\ \/ finalSl # Undef /\ isSL(o)
                   \/ finalTp # Undef /\ isTP(o)}
    IN  ReplaceOrders(call, ex, ordersToCancel, finalSl, finalTp)

\* okxService.ts: every pending order of the side is cancelled and the prices
\* are sent as given when they are non-empty strings.
updatePositionTPSLOkx(call, ex) ==
    LET pendingAlgos == fetchAlgoOrders(ex)
        toCancel == {o \in pendingAlgos : o.posSide = call.posSide}
    IN  ReplaceOrders(call, ex, toCancel,
                      IF Truthy(call.sl) THEN call.sl ELSE Undef,
                      IF Truthy(call.tp) THEN call.tp ELSE Undef)

\* order.size as it reaches executeOrder: "", "NaN", "0", "0.005", "0.01", "0.5"
OrderSizes ==
    {Text("empty"), Text("text"), Numeral(0, 0), Numeral(5, 3), Numeral(10, 2),
     Numeral(500, 1)}

\* stop_loss and profit_target as they reach the service: undefined, "", a
\* non-numeric text, "0", "-5", "0.004", "3100", "3100.126"
PriceStrings ==
    {Undef, Text("empty"), Text("text"), Numeral(0, 0), Numeral(-5000, 0), Numeral(4, 3),
     Numeral(3100000, 0), Numeral(3100126, 3)}

Orders ==
    [action : {"BUY", "SELL", "CLOSE"}, size : OrderSizes, sl : PriceStrings,
     tp : PriceStrings]

\* The exchange as executeOrder meets it: the account's position mode, the
\* sides holding a position, whether it accepts the leverage and the order.
OrderExchanges ==
    [posMode : {"long_short_mode", "net_mode"}, open : SUBSET {"long", "short"},
     leverageOk : BOOLEAN, orderOk : BOOLEAN]

TpslArguments ==
    [posSide : {"long", "short"}, size : {Numeral(1000, 0)}, sl : PriceStrings,
     tp : PriceStrings]

PendingSets ==
    {{},
     {AlgoOrder(1, "long", Numeral(3000000, 2), Undef)},
     {AlgoOrder(1, "long", Numeral(3000000, 2), Undef),
      AlgoOrder(2, "long", Undef, Numeral(3400000, 2))},
     {AlgoOrder(1, "short", Numeral(3300000, 2), Undef)},
     {AlgoOrder(1, "long", Numeral(3000000, 2), Numeral(3400000, 2))}}

\* The exchange as updatePositionTPSL meets it: the pending conditional
\* orders, and whether it serves the lookup, the cancel request and each order.
TpslExchanges ==
    [pending : PendingSets, lookupOk : BOOLEAN, cancelOk : BOOLEAN, slOk : BOOLEAN,
     tpOk : BOOLEAN]

OkxInit ==
    /\ NoIndicatorCheck
    /\ NoCallMade
    /\ ServerInit
    /\ exch = <<>>
    /\ oout = NoOkxResult
    /\ \/ oin \in [op : {"executeOrder"}, order : Orders, ex : OrderExchanges]
       \/ oin \in [op : {"updatePositionTPSL"}, call : TpslArguments, ex : TpslExchanges]

ExecuteOrderCall ==
    /\ oin.op = "executeOrder"
    /\ oout = NoOkxResult
    /\ oout' = [variant |-> "aiService", r |-> executeOrder(oin.order, oin.ex)]
    /\ UNCHANGED <<rin, rout, rpc, series, ind, status, oin, svars>>

ExecuteOrderOkxCall ==
    /\ oin.op = "executeOrder"
    /\ oout = NoOkxResult
    /\ oout' = [variant |-> "okxService", r |-> executeOrderOkx(oin.order, oin.ex)]
    /\ UNCHANGED <<rin, rout, rpc, series, ind, status, oin, svars>>

UpdateTpslCall ==
    /\ oin.op = "updatePositionTPSL"
    /\ oout = NoOkxResult
    /\ oout' = [variant |-> "aiService", r |-> updatePositionTPSL(oin.call, oin.ex)]
    /\ UNCHANGED <<rin, rout, rpc, series, ind, status, oin, svars>>

UpdateTpslOkxCall ==
    /\ oin.op = "updatePositionTPSL"
    /\ oout = NoOkxResult
    /\ oout' = [variant |-> "okxService", r |-> updatePositionTPSLOkx(oin.call, oin.ex)]
    /\ UNCHANGED <<rin, rout, rpc, series, ind, status, oin, svars>>

OkxNext ==
    \/ ExecuteOrderCall
    \/ ExecuteOrderOkxCall
    \/ UpdateTpslCall
    \/ UpdateTpslOkxCall

SpecOkx == OkxInit /\ [][OkxNext]_vars

OrderDone == oin.op = "executeOrder" /\ oout.variant # "none"

TpslDone == oin.op = "updatePositionTPSL" /\ oout.variant # "none"

MarketOrders ==
    {oout.r.requests[k] : k \in {j \in DOMAIN oout.r.requests :
                                    oout.r.requests[j].path = "order"}}

TriggerPrices ==
    {oout.r.requests[k].slTriggerPx : k \in DOMAIN oout.r.requests}
    \cup {oout.r.requests[k].tpTriggerPx : k \in DOMAIN oout.r.requests}

PendingStops(pending, posSide) == {o \in pending : o.posSide = posSide /\ isSL(o)}

\* C26: executeOrder sends no market order whose size is not a number of at
\* least 0.01: a BUY or SELL whose size is empty, non-numeric, zero or below
\* 0.01 throws and no order request is sent.
C26_InvalidSizeNeverSent ==
    (OrderDone /\ oout.variant = "aiService" /\ oin.order.action \in {"BUY", "SELL"})
    => /\ \A q \in MarketOrders : q.sz.kind = "num" /\ q.sz.v >= 10
       /\ ( \/ IsNaN(parseFloat(oin.order.size))
            \/ Val(parseFloat(oin.order.size)) < 10 )
          => oout.r.thrown /\ MarketOrders = {}

\* C27: after updatePositionTPSL returns success for a new stop-loss, exactly
\* one stop-loss order is pending for that side, also when the lookup of the
\* pending orders failed or the cancel request was rejected.
C27_OneStopAfterUpdate ==
    ( /\ TpslDone /\ oout.variant = "aiService"
      /\ ~oout.r.thrown
      /\ formatPxText(oin.call.sl).v > 0 )
    => Cardinality(PendingStops(oout.r.pending, oin.call.posSide)) = 1

\* C28: every stop-loss or take-profit trigger price in a request sent by
\* executeOrder or updatePositionTPSL is a positive number written with exactly
\* two decimals; any other price is left out of the request.
C28_TriggerPricesTwoDecimals ==
    (OrderDone \/ TpslDone)
    => \A px \in TriggerPrices :
          px = Undef \/ (px.kind = "num" /\ px.v > 0 /\ px.dp = 2)

\* C30: after executeOrder returns success for CLOSE no position remains open,
\* also when a long and a short position were both open.
C30_CloseLeavesNothingOpen ==
    (OrderDone /\ oin.order.action = "CLOSE" /\ ~oout.r.thrown)
    => oout.r.open = {}

-----------------------------------------------------------------------------
(* The stage bands at their boundaries (SpecStage) *)

\* Total equity in 1/100 USDT, on both sides of 20 and of 80
StageEquities == {0, 1999, 2000, 2001, 7999, 8000, 8001, 10000}

StageAccounts ==
    {[totalEq |-> e, availEq |-> e, positions |-> <<>>] : e \in StageEquities}

StageResponses ==
    {[kind |-> "json", td |-> td, narrative |-> TRUE] :
        td \in [action : {"BUY", "HOLD"}, confidence : {Num(40)},
                position_size : {[kind |-> "none", v |-> 0], [kind |-> "num", v |-> 5]},
                leverage : ModelLeverages, stop_loss : {NaN}, profit_target : {NaN}]}

StageInit ==
    /\ ChecksIdle
    /\ rpc = "in"
    /\ rin \in [resp : StageResponses, price : Prices, account : StageAccounts]
    /\ rout = [variant |-> "none", d |-> NoDecision]
    /\ ServerInit
    /\ exch = <<>>

SpecStage == StageInit /\ [][DecisionNext]_vars

\* C29: equity below 20 selects stage 1, from 20 to below 80 stage 2, from 80
\* on stage 3 (20 itself is stage 2, 80 itself stage 3), and a decision whose
\* leverage falls back to the default carries the leverage of that stage: in
\* aiService.ts always, in part_000 whenever it carries a leverage (its
\* demotion to HOLD leaves the field unset).
C29_StageByEquity ==
    Returned
    => LET equity == rin.account.totalEq
           stage == StageOf(equity)
       IN  /\ equity < 2000 => stage = "STAGE_1"
           /\ (2000 <= equity /\ equity < 8000) => stage = "STAGE_2"
           /\ equity >= 8000 => stage = "STAGE_3"
           /\ ( /\ IsNaN(rin.resp.td.leverage)
                /\ rout.variant = "deepseek" \/ ~IsNaN(rout.d.leverage) )
              => rout.d.leverage = Num(CASE equity < 2000 -> 20
                                         [] equity >= 8000 -> 5
                                         [] OTHER -> 10)

C29_Witness ==
    /\ Returned
    /\ rout.variant = "deepseek"
    /\ rin.account.totalEq = 8000
    /\ IsNaN(rin.resp.td.leverage)
    /\ rout.d.leverage = Num(5)

=============================================================================
